---- MODULE Spec2Model ----
(***************************************************************************)
(* ImageFlow (src/app.py): the POST /convert handler, the render sequence  *)
(* of html_to_image with its response observer and the browser processes   *)
(* it launches, and the Google Drive URL normaliser.                       *)
(*                                                                         *)
(* Strings that the code inspects character by character (the HTML and the *)
(* URLs in it) are sequences of one-character strings.  Strings the code   *)
(* only passes around (messages, format names) are TLA+ strings.  An       *)
(* Optional[...] field of the request body is <<>> for None and <<v>> for  *)
(* a value v.                                                              *)
(***************************************************************************)
EXTENDS Integers, Sequences, FiniteSets, TLC

\* ------------------------------------------------------------------------
\* Bounds of the model
\* ------------------------------------------------------------------------

\* number of request slots of the server
NumReqs == 2

\* number of quoted segments an input document of the normaliser is made of
MaxSegs == 2

Reqs == 1..NumReqs

None == <<>>
Some(v) == <<v>>

\* ------------------------------------------------------------------------
\* Text helpers (Python str operations used by the code)
\* ------------------------------------------------------------------------

\* s[i..] starts with p
StartsWithAt(s, i, p) ==
    /\ i >= 1
    /\ i + Len(p) - 1 <= Len(s)
    /\ \A k \in 1..Len(p) : s[i + k - 1] = p[k]

\* least index >= from where p occurs in s, 0 when there is none (str.find)
Find(s, p, from) ==
    LET hits == {i \in from..(Len(s) - Len(p) + 1) : StartsWithAt(s, i, p)}
    IN  IF hits = {} THEN 0 ELSE CHOOSE i \in hits : \A j \in hits : i <= j

\* p in s
Contains(s, p) == Find(s, p, 1) # 0

\* s[a..b], empty when b < a
Slice(s, a, b) == IF b < a THEN <<>> ELSE SubSeq(s, a, b)

\* ------------------------------------------------------------------------
\* URL normaliser: convert_google_drive_url and process_html_urls
\* ------------------------------------------------------------------------

DQ == "\""
SQ == "'"

\* the character class ["\'] of both substitution patterns
Quotes == {DQ, SQ}

\* the character class [a-zA-Z0-9_-] of the three file-id patterns
IdChars ==
    {"a", "b", "c", "d", "e", "f", "g", "h", "i", "j", "k", "l", "m",
     "n", "o", "p", "q", "r", "s", "t", "u", "v", "w", "x", "y", "z",
     "A", "B", "C", "D", "E", "F", "G", "H", "I", "J", "K", "L", "M",
     "N", "O", "P", "Q", "R", "S", "T", "U", "V", "W", "X", "Y", "Z",
     "0", "1", "2", "3", "4", "5", "6", "7", "8", "9", "_", "-"}

SRC_EQ ==
    <<"s", "r", "c", "=">>

DRIVE_HOST ==
    <<"d", "r", "i", "v", "e", ".", "g", "o", "o", "g", "l", "e", ".", "c",
      "o", "m">>

PAT_FILE ==
    <<"d", "r", "i", "v", "e", ".", "g", "o", "o", "g", "l", "e", ".", "c",
      "o", "m", "/", "f", "i", "l", "e", "/", "d", "/">>

PAT_OPEN ==
    <<"d", "r", "i", "v", "e", ".", "g", "o", "o", "g", "l", "e", ".", "c",
      "o", "m", "/", "o", "p", "e", "n", "?", "i", "d", "=">>

PAT_UC ==
    <<"d", "r", "i", "v", "e", ".", "g", "o", "o", "g", "l", "e", ".", "c",
      "o", "m", "/", "u", "c", "?">>

ID_EQ ==
    <<"i", "d", "=">>

HTTP ==
    <<"h", "t", "t", "p">>

LH3_PREFIX ==
    <<"h", "t", "t", "p", "s", ":", "/", "/", "l", "h", "3", ".", "g", "o",
      "o", "g", "l", "e", "u", "s", "e", "r", "c", "o", "n", "t", "e", "n",
      "t", ".", "c", "o", "m", "/", "d", "/">>

\* last index of the longest run of characters of class cls that starts at
\* i; i - 1 when s[i] is not in cls (a greedy cls* at position i)
RunEnd(s, i, cls) ==
    LET stops == {j \in i..Len(s) : s[j] \notin cls}
    IN  IF stops = {} THEN Len(s)
        ELSE (CHOOSE j \in stops : \A k \in stops : j <= k) - 1

\* last index of the longest run of non-quote characters that starts at i
\* (a greedy [^"\']* at position i)
NonQuoteRunEnd(s, i) ==
    LET stops == {j \in i..Len(s) : s[j] \in Quotes}
    IN  IF stops = {} THEN Len(s)
        ELSE (CHOOSE j \in stops : \A k \in stops : j <= k) - 1

\* re.search(lit + '([a-zA-Z0-9_-]+)', url).group(1); <<>> when no match
SearchIdAfter(url, lit) ==
    LET hits == {k \in 1..Len(url) :
                    /\ StartsWithAt(url, k, lit)
                    /\ k + Len(lit) <= Len(url)
                    /\ url[k + Len(lit)] \in IdChars}
    IN  IF hits = {} THEN <<>>
        ELSE LET k == CHOOSE i \in hits : \A j \in hits : i <= j
                 g == k + Len(lit)
             IN  Slice(url, g, RunEnd(url, g, IdChars))

\* re.search(r'drive\.google\.com/uc\?.*?id=([a-zA-Z0-9_-]+)', url).group(1);
\* <<>> when no match.  '.*?' is lazy: the first 'id=' that is followed by an
\* id character is taken; '.' matches no line break.
SearchUcId(url) ==
    LET IdAt(k) == {m \in (k + Len(PAT_UC))..Len(url) :
                       /\ StartsWithAt(url, m, ID_EQ)
                       /\ m + Len(ID_EQ) <= Len(url)
                       /\ url[m + Len(ID_EQ)] \in IdChars
                       /\ \A j \in (k + Len(PAT_UC))..(m - 1) : url[j] # "\n"}
        hits == {k \in 1..Len(url) :
                    StartsWithAt(url, k, PAT_UC) /\ IdAt(k) # {}}
    IN  IF hits = {} THEN <<>>
        ELSE LET k == CHOOSE i \in hits : \A j \in hits : i <= j
                 m == CHOOSE i \in IdAt(k) : \A j \in IdAt(k) : i <= j
                 g == m + Len(ID_EQ)
             IN  Slice(url, g, RunEnd(url, g, IdChars))

\* the three patterns are tried in order; the first that matches decides
convert_google_drive_url(url) ==
    LET g1 == SearchIdAfter(url, PAT_FILE)
        g2 == SearchIdAfter(url, PAT_OPEN)
        g3 == SearchUcId(url)
    IN  IF g1 # <<>> THEN LH3_PREFIX \o g1
        ELSE IF g2 # <<>> THEN LH3_PREFIX \o g2
        ELSE IF g3 # <<>> THEN LH3_PREFIX \o g3
        ELSE url

\* str.replace(old, new): every non-overlapping occurrence, left to right
RECURSIVE StrReplaceFrom(_, _, _, _)
StrReplaceFrom(s, old, new, i) ==
    LET k == IF Len(old) = 0 THEN 0 ELSE Find(s, old, i)
    IN  IF k = 0 THEN Slice(s, i, Len(s))
        ELSE Slice(s, i, k - 1) \o new
             \o StrReplaceFrom(s, old, new, k + Len(old))

StrReplace(s, old, new) == StrReplaceFrom(s, old, new, 1)

\* r'src=["\']([^"\']+)["\']' tried at position i: the index of the closing
\* quote, 0 when the pattern does not match at i
SrcMatchEnd(s, i) ==
    IF /\ StartsWithAt(s, i, SRC_EQ)
       /\ i + Len(SRC_EQ) <= Len(s)
       /\ s[i + Len(SRC_EQ)] \in Quotes
    THEN LET b == i + Len(SRC_EQ) + 1
             e == NonQuoteRunEnd(s, b)
         IN  IF e >= b /\ e + 1 <= Len(s) THEN e + 1 ELSE 0
    ELSE 0

replace_drive_url(full_match, url) ==
    IF Contains(url, DRIVE_HOST)
    THEN StrReplace(full_match, url, convert_google_drive_url(url))
    ELSE full_match

\* re.sub of the src pattern from position i on: the leftmost match is
\* replaced and the scan goes on after it (matches do not overlap)
RECURSIVE SubSrc(_, _)
SubSrc(s, i) ==
    LET hits == {k \in i..Len(s) : SrcMatchEnd(s, k) # 0}
    IN  IF hits = {} THEN Slice(s, i, Len(s))
        ELSE LET k == CHOOSE x \in hits : \A y \in hits : x <= y
                 e == SrcMatchEnd(s, k)
             IN  Slice(s, i, k - 1)
                 \o replace_drive_url(Slice(s, k, e),
                                      Slice(s, k + Len(SRC_EQ) + 1, e - 1))
                 \o SubSrc(s, e + 1)

\* index just after 'https?://' when s has it at position i, otherwise 0
SchemeEnd(s, i) ==
    IF ~StartsWithAt(s, i, HTTP) THEN 0
    ELSE LET p == i + Len(HTTP)
         IN  IF StartsWithAt(s, p, <<"s", ":", "/", "/">>) THEN p + 4
             ELSE IF StartsWithAt(s, p, <<":", "/", "/">>) THEN p + 3
             ELSE 0

\* r'=(["\'])(https?://[^"\']*drive\.google\.com[^"\']+)\1' tried at position
\* i: the index of the closing quote, 0 when the pattern does not match at i
JsMatchEnd(s, i) ==
    IF /\ i + 1 <= Len(s)
       /\ s[i] = "="
       /\ s[i + 1] \in Quotes
    THEN LET b == i + 2
             e == NonQuoteRunEnd(s, b)
             r == SchemeEnd(s, b)
         IN  IF /\ r # 0
                /\ \E k \in r..e : /\ StartsWithAt(s, k, DRIVE_HOST)
                                   /\ k + Len(DRIVE_HOST) <= e
                /\ e + 1 <= Len(s)
                /\ s[e + 1] = s[i + 1]
             THEN e + 1
             ELSE 0
    ELSE 0

replace_js_url(whole, quote, url) ==
    IF Contains(url, DRIVE_HOST)
    THEN <<"=", quote>> \o convert_google_drive_url(url) \o <<quote>>
    ELSE whole

\* re.sub of the assignment pattern from position i on: the leftmost match
\* is replaced and the scan goes on after it (matches do not overlap)
RECURSIVE SubJs(_, _)
SubJs(s, i) ==
    LET hits == {k \in i..Len(s) : JsMatchEnd(s, k) # 0}
    IN  IF hits = {} THEN Slice(s, i, Len(s))
        ELSE LET k == CHOOSE x \in hits : \A y \in hits : x <= y
                 e == JsMatchEnd(s, k)
             IN  Slice(s, i, k - 1)
                 \o replace_js_url(Slice(s, k, e), s[k + 1],
                                   Slice(s, k + 2, e - 1))
                 \o SubJs(s, e + 1)

process_html_urls(html) == SubJs(SubSrc(html, 1), 1)

\* ------------------------------------------------------------------------
\* Input documents of the normaliser
\* ------------------------------------------------------------------------

URL_FILE ==
    <<"h", "t", "t", "p", "s", ":", "/", "/", "d", "r", "i", "v", "e", ".",
      "g", "o", "o", "g", "l", "e", ".", "c", "o", "m", "/", "f", "i", "l",
      "e", "/", "d", "/", "A", "1", "/", "v", "i", "e", "w">>

URL_OPEN ==
    <<"h", "t", "t", "p", "s", ":", "/", "/", "d", "r", "i", "v", "e", ".",
      "g", "o", "o", "g", "l", "e", ".", "c", "o", "m", "/", "o", "p", "e",
      "n", "?", "i", "d", "=", "B", "2">>

URL_UC ==
    <<"h", "t", "t", "p", "s", ":", "/", "/", "d", "r", "i", "v", "e", ".",
      "g", "o", "o", "g", "l", "e", ".", "c", "o", "m", "/", "u", "c", "?",
      "e", "x", "p", "o", "r", "t", "=", "v", "i", "e", "w", "&", "i", "d",
      "=", "C", "3">>

URL_UC_UID ==
    <<"h", "t", "t", "p", "s", ":", "/", "/", "d", "r", "i", "v", "e", ".",
      "g", "o", "o", "g", "l", "e", ".", "c", "o", "m", "/", "u", "c", "?",
      "u", "i", "d", "=", "Z", "9", "&", "i", "d", "=", "D", "4">>

URL_FILE_SRC ==
    <<"h", "t", "t", "p", "s", ":", "/", "/", "d", "r", "i", "v", "e", ".",
      "g", "o", "o", "g", "l", "e", ".", "c", "o", "m", "/", "f", "i", "l",
      "e", "/", "d", "/", "E", "5", "?", "s", "r", "c", "=">>

URL_FOLDER ==
    <<"h", "t", "t", "p", "s", ":", "/", "/", "d", "r", "i", "v", "e", ".",
      "g", "o", "o", "g", "l", "e", ".", "c", "o", "m", "/", "d", "r", "i",
      "v", "e", "/", "m", "y", "-", "d", "r", "i", "v", "e">>

URL_OTHER_DRIVE ==
    <<"h", "t", "t", "p", "s", ":", "/", "/", "e", "x", "a", "m", "p", "l",
      "e", ".", "c", "o", "m", "/", "?", "u", "=", "d", "r", "i", "v", "e",
      ".", "g", "o", "o", "g", "l", "e", ".", "c", "o", "m", "/", "f", "i",
      "l", "e", "/", "d", "/", "F", "6">>

URL_OTHER ==
    <<"h", "t", "t", "p", "s", ":", "/", "/", "e", "x", "a", "m", "p", "l",
      "e", ".", "c", "o", "m", "/", "a", ".", "p", "n", "g">>

ASSIGN_EQ == <<"u", "=">>

\* The URLs of the input documents.  text is what the code sees; drive and id
\* say what the URL is: whether its host is drive.google.com, and the file id
\* it names (<<>> when it names none).
Urls ==
    {[text |-> URL_FILE,        drive |-> TRUE,  id |-> <<"A", "1">>],
     [text |-> URL_OPEN,        drive |-> TRUE,  id |-> <<"B", "2">>],
     [text |-> URL_UC,          drive |-> TRUE,  id |-> <<"C", "3">>],
     [text |-> URL_UC_UID,      drive |-> TRUE,  id |-> <<"D", "4">>],
     [text |-> URL_FILE_SRC,    drive |-> TRUE,  id |-> <<"E", "5">>],
     [text |-> URL_FOLDER,      drive |-> TRUE,  id |-> <<>>],
     [text |-> URL_OTHER_DRIVE, drive |-> FALSE, id |-> <<>>],
     [text |-> URL_OTHER,       drive |-> FALSE, id |-> <<>>]}

\* A quoted segment: src=<quote>URL<quote> or u=<quote>URL<quote>, the two
\* quotes chosen independently (unbalanced quotes are input too).
Segments ==
    [pre : {SRC_EQ, ASSIGN_EQ}, open : Quotes, url : Urls, close : Quotes]

RenderSeg(g) == g.pre \o <<g.open>> \o g.url.text \o <<g.close>>

RECURSIVE Render(_)
Render(gs) ==
    IF gs = <<>> THEN <<>> ELSE RenderSeg(Head(gs)) \o Render(Tail(gs))

\* ------------------------------------------------------------------------
\* Requests, exceptions and responses of POST /convert
\* ------------------------------------------------------------------------

API_KEY == "imageflow-default-key-2024"

DEFAULT_TIMEOUT_MS == 30000

\* the Authorization header: absent, a bearer token that is not the key,
\* the key
Credentials == {None, Some("not-the-key"), Some(API_KEY)}

Formats ==
    {None, Some("png"), Some("PNG"), Some("jpeg"), Some("Jpeg"), Some("bmp")}

Qualities == {None, Some(0), Some(1), Some(100), Some(101)}

\* <<width, height>>
Viewports == {<<Some(1920), Some(1080)>>, <<Some(0), Some(600)>>, <<None, None>>}

HELLO_HTML ==
    <<"<", "h", "1", ">", "H", "e", "l", "l", "o", "<", "/", "h", "1", ">">>

HtmlSamples ==
    {HELLO_HTML,
     RenderSeg([pre |-> SRC_EQ, open |-> DQ, close |-> DQ,
                url |-> [text |-> URL_FILE, drive |-> TRUE,
                         id |-> <<"A", "1">>]])}

HTMLRequest ==
    [cred : Credentials, html : HtmlSamples, view : Viewports,
     format : Formats, quality : Qualities]

NoRequest ==
    [cred |-> None, html |-> <<>>, view |-> <<None, None>>,
     format |-> None, quality |-> None]

\* the bytes page.screenshot may return
Images == {"image-bytes-1", "image-bytes-2"}

HTTPException(status, detail) ==
    [type |-> "HTTPException", status |-> status, detail |-> detail]

PyError(type, msg) == [type |-> type, status |-> 0, detail |-> <<msg>>]

NoExc == [type |-> "none", status |-> 0, detail |-> <<>>]

StatusText(n) ==
    CASE n = 400 -> "400"
      [] n = 401 -> "401"
      [] n = 403 -> "403"
      [] n = 500 -> "500"
      [] OTHER -> "?"

\* str(e): starlette's HTTPException prints '<status>: <detail>', any other
\* exception its message
Str(e) ==
    IF e.type = "HTTPException"
    THEN <<StatusText(e.status), ": ">> \o e.detail
    ELSE e.detail

\* str.lower() on the format names of the model
lower(s) ==
    CASE s = "PNG" -> "png"
      [] s = "JPEG" -> "jpeg"
      [] s = "Jpeg" -> "jpeg"
      [] s = "BMP" -> "bmp"
      [] OTHER -> s

valid_formats == <<"png", "jpeg">>

InSeq(x, q) == \E i \in DOMAIN q : q[i] = x

\* sep.join(q), as the sequence of its pieces
RECURSIVE Join(_, _)
Join(sep, q) ==
    IF Len(q) = 0 THEN <<>>
    ELSE IF Len(q) = 1 THEN <<q[1]>>
    ELSE <<q[1], sep>> \o Join(sep, Tail(q))

content_type_map_png_only(f) == "image/png"

\* the dict of the handler: exactly two keys
content_type_map(f) ==
    CASE f = "png" -> "image/png"
      [] f = "jpeg" -> "image/jpeg"

NoResponse == [status |-> 0, media_type |-> "", detail |-> <<>>, body |-> ""]

\* the JSON error response FastAPI sends for an HTTPException
ErrorResponse(e) ==
    [status |-> e.status, media_type |-> "application/json",
     detail |-> e.detail, body |-> ""]

ImageResponse(content, media_type) ==
    [status |-> 200, media_type |-> media_type, detail |-> <<>>,
     body |-> content]

\* HTTPBearer() with no usable Authorization header: 'Not authenticated',
\* with status 403 in FastAPI releases before 0.122 and 401 since
NotAuthenticated ==
    {HTTPException(403, <<"Not authenticated">>),
     HTTPException(401, <<"Not authenticated">>)}

verify_api_key_accepts(credentials) == NoExc

verify_api_key(credentials) ==
    IF credentials # API_KEY
    THEN HTTPException(401,
           <<"Invalid API key. Please provide a valid API key in the Authorization header.">>)
    ELSE NoExc

\* the format check of the handler: the exception it raises, NoExc if none
validate_format(format) ==
    IF format = None
    THEN PyError("AttributeError",
                 "'NoneType' object has no attribute 'lower'")
    ELSE IF ~InSeq(lower(format[1]), valid_formats)
    THEN HTTPException(400, <<"Invalid format. Must be one of: ">>
                            \o Join(", ", valid_formats))
    ELSE NoExc

quality_in_range_upper_only(q) == q <= 100

quality_in_range(q) == 1 <= q /\ q <= 100

\* the quality check of the handler: the exception it raises, NoExc if none
validate_quality(quality) ==
    IF quality = None
    THEN PyError("TypeError",
                 "'<=' not supported between instances of 'int' and 'NoneType'")
    ELSE IF ~quality_in_range(quality[1])
    THEN HTTPException(400, <<"Quality must be between 1 and 100">>)
    ELSE NoExc

\* except Exception as e: raise HTTPException(500, f"Conversion failed: {e}")
convert_except(e) == HTTPException(500, <<"Conversion failed: ">> \o Str(e))

\* dict.pop(k, None)
DictPop(d, k) == [x \in DOMAIN d \ {k} |-> d[x]]

screenshot_options_keep_quality(format, quality) ==
    [type |-> format,
     quality |-> IF format # "png" THEN Some(quality) ELSE None,
     full_page |-> TRUE]

screenshot_options(format, quality) ==
    LET opts == [type |-> format,
                 quality |-> IF format # "png" THEN Some(quality) ELSE None,
                 full_page |-> TRUE]
    IN  IF format = "png" THEN DictPop(opts, "quality") ELSE opts

\* the exceptions an engine call may raise
EngineErrors(op) ==
    IF op = "set_content"
    THEN {PyError("TimeoutError", "Timeout 30000ms exceeded."),
          PyError("Error", "set_content failed")}
    ELSE {[type |-> "Error", status |-> 0, detail |-> <<op, " failed">>]}

TryBody == {"set_viewport_size", "set_default_timeout", "set_content",
            "screenshot"}

on_raise_retry(op) == op

on_raise_capture_anyway(op) ==
    IF op = "set_content" THEN "screenshot"
    ELSE IF op \in TryBody THEN "close"
    ELSE IF op = "async_playwright" THEN "return"
    ELSE "playwright_stop"

\* where control goes when the call op raises: a statement of the try body
\* to except and finally (browser.close()), what precedes the try and the
\* finally itself to the exit of 'async with', the entry of 'async with'
\* straight out of html_to_image
on_raise(op) ==
    IF op \in TryBody THEN "close"
    ELSE IF op = "async_playwright" THEN "return"
    ELSE "playwright_stop"

playwright_stop_leaves_browser(b) == b

\* leaving 'async with async_playwright()' stops the driver, and the driver
\* takes the browsers it launched down with it
playwright_stop(b) == IF b = "open" THEN "closed" ELSE b

\* the processes once the playwright context of request r has stopped
Stopped(ps, r) ==
    {IF p.owner = r /\ p.state = "open"
     THEN [p EXCEPT !.state = playwright_stop(@),
                    !.closed_by = IF playwright_stop(p.state) = "closed"
                                  THEN @ \cup {r} ELSE @]
     ELSE p : p \in ps}

convert_response_ignores_error(e, format, image_data) ==
    ImageResponse(image_data, content_type_map(lower(format)))

\* what the handler answers once html_to_image has returned image_data or
\* raised e
convert_response(e, format, image_data) ==
    IF e # NoExc THEN ErrorResponse(convert_except(e))
    ELSE ImageResponse(image_data, content_type_map(lower(format)))

\* ------------------------------------------------------------------------
\* The response observer: is_valid_image_format and handle_response
\* ------------------------------------------------------------------------

ALLOWED_IMAGE_FORMATS ==
    {<<"j", "p", "g">>,
     <<"j", "p", "e", "g">>,
     <<"p", "n", "g">>,
     <<"g", "i", "f">>,
     <<"w", "e", "b", "p">>,
     <<"s", "v", "g">>,
     <<"b", "m", "p">>,
     <<"i", "c", "o">>}

ALLOWED_MIME_TYPES ==
    {<<"i", "m", "a", "g", "e", "/", "j", "p", "e", "g">>,
     <<"i", "m", "a", "g", "e", "/", "j", "p", "g">>,
     <<"i", "m", "a", "g", "e", "/", "p", "n", "g">>,
     <<"i", "m", "a", "g", "e", "/", "g", "i", "f">>,
     <<"i", "m", "a", "g", "e", "/", "w", "e", "b", "p">>,
     <<"i", "m", "a", "g", "e", "/", "s", "v", "g", "+", "x", "m", "l">>,
     <<"i", "m", "a", "g", "e", "/", "b", "m", "p">>,
     <<"i", "m", "a", "g", "e", "/", "x", "-", "i", "c", "o", "n">>,
     <<"i", "m", "a", "g", "e", "/", "v", "n", "d", ".", "m", "i", "c", "r",
  "o", "s", "o", "f", "t", ".", "i", "c", "o", "n">>}

MAX_FILE_SIZE == 500 * 1024 * 1024

UpperCase ==
    <<"A", "B", "C", "D", "E", "F", "G", "H", "I", "J", "K", "L", "M", "N",
      "O", "P", "Q", "R", "S", "T", "U", "V", "W", "X", "Y", "Z">>

LowerCase ==
    <<"a", "b", "c", "d", "e", "f", "g", "h", "i", "j", "k", "l", "m", "n",
      "o", "p", "q", "r", "s", "t", "u", "v", "w", "x", "y", "z">>

\* str.lower(), character by character
str_lower(s) ==
    [i \in DOMAIN s |->
        IF \E k \in DOMAIN UpperCase : UpperCase[k] = s[i]
        THEN LowerCase[CHOOSE k \in DOMAIN UpperCase : UpperCase[k] = s[i]]
        ELSE s[i]]

\* s.split(sep)[0]
SplitFirst(s, sep) ==
    IF Find(s, <<sep>>, 1) = 0 THEN s ELSE Slice(s, 1, Find(s, <<sep>>, 1) - 1)

\* str.strip()
str_strip(s) ==
    LET inked == {i \in DOMAIN s : s[i] # " "}
    IN  IF inked = {} THEN <<>>
        ELSE Slice(s, CHOOSE i \in inked : \A j \in inked : i <= j,
                      CHOOSE i \in inked : \A j \in inked : j <= i)

DigitChars == <<"0", "1", "2", "3", "4", "5", "6", "7", "8", "9">>

\* the text int() reads: blanks around it dropped
IntBody(s) ==
    LET u == str_strip(s)
    IN  IF u # <<>> /\ u[1] \in {"+", "-"} THEN Tail(u) ELSE u

\* int(s) returns (signs and blanks as Python reads them; the digit
\* separator '_' does not occur in the inputs)
IsIntLiteral(s) ==
    /\ IntBody(s) # <<>>
    /\ \A i \in DOMAIN IntBody(s) : InSeq(IntBody(s)[i], DigitChars)

RECURSIVE DigitsValue(_)
DigitsValue(d) ==
    IF d = <<>> THEN 0
    ELSE 10 * DigitsValue(Slice(d, 1, Len(d) - 1))
         + (CHOOSE k \in DOMAIN DigitChars : DigitChars[k] = d[Len(d)]) - 1

\* int(s) for a literal
int(s) ==
    IF str_strip(s)[1] = "-" THEN 0 - DigitsValue(IntBody(s))
    ELSE DigitsValue(IntBody(s))

\* dict.get(k, default)
DictGet(d, k, default) == IF k \in DOMAIN d THEN d[k] ELSE default

\* some '.ext' of the allowed extensions occurs in the lower-cased URL
has_allowed_extension(url) ==
    \E ext \in ALLOWED_IMAGE_FORMATS :
        Contains(str_lower(url), <<".">> \o ext)

\* the content type, lower-cased and cut at ';', is an allowed MIME type
has_allowed_mime(content_type) ==
    /\ content_type # <<>>
    /\ str_strip(SplitFirst(str_lower(content_type), ";"))
         \in ALLOWED_MIME_TYPES

\* the extension test, then the MIME test, then 'allow it' whatever they said
is_valid_image_format(url, content_type) ==
    IF has_allowed_extension(url) THEN TRUE
    ELSE IF has_allowed_mime(content_type) THEN TRUE
    ELSE TRUE

HTTP_SCHEME ==
    <<"h", "t", "t", "p", ":", "/", "/">>

HTTPS_SCHEME ==
    <<"h", "t", "t", "p", "s", ":", "/", "/">>

\* the notes handle_response prints
NOTE_FAILED == "Failed to load image"
NOTE_BLOCKED == "Blocking resource with invalid content type"
NOTE_TOO_LARGE == "Blocking oversized resource"
NOTE_LOADING == "Loading external image"

\* what one call of handle_response did: the notes it printed and the
\* exception it raised, NoExc if it returned
Observed(notes, e) == [notes |-> notes, exc |-> e]

load_failed_never(status) == FALSE

load_failed(status) == status >= 400

handle_response(response) ==
    LET url == response.url
        resource_type == response.resource_type
    IN  IF /\ resource_type \in {"image", "media"}
           /\ \/ StartsWithAt(url, 1, HTTP_SCHEME)
              \/ StartsWithAt(url, 1, HTTPS_SCHEME)
        THEN IF load_failed(response.status)
             THEN Observed(<<NOTE_FAILED>>, NoExc)
             ELSE
             LET content_type == DictGet(response.headers, "content-type", <<>>)
                 content_length ==
                     DictGet(response.headers, "content-length", None)
             IN  IF ~is_valid_image_format(url, content_type)
                 THEN Observed(<<NOTE_BLOCKED>>, NoExc)
                 ELSE IF content_length # <<>> /\ ~IsIntLiteral(content_length)
                 THEN Observed(<<>>,
                        PyError("ValueError",
                                "invalid literal for int() with base 10"))
                 ELSE IF /\ content_length # <<>>
                         /\ int(content_length) > MAX_FILE_SIZE
                 THEN Observed(<<NOTE_TOO_LARGE>>, NoExc)
                 ELSE Observed(<<NOTE_LOADING>>, NoExc)
        ELSE Observed(<<>>, NoExc)

\* sub-resource responses a page may receive
URL_PNG_UPPER ==
    <<"h", "t", "t", "p", "s", ":", "/", "/", "c", "d", "n", ".", "e", "x",
      "a", "m", "p", "l", "e", ".", "c", "o", "m", "/", "a", "/", "L", "O",
      "G", "O", ".", "P", "N", "G">>

URL_NO_EXT ==
    <<"h", "t", "t", "p", ":", "/", "/", "i", ".", "e", "x", "a", "m", "p",
      "l", "e", ".", "c", "o", "m", "/", "p", "h", "o", "t", "o", "?", "i",
      "d", "=", "7">>

URL_DATA ==
    <<"d", "a", "t", "a", ":", "i", "m", "a", "g", "e", "/", "g", "i", "f",
      ";", "b", "a", "s", "e", "6", "4", ",", "R", "0", "l", "G", "O", "D">>

CT_HTML ==
    <<"t", "e", "x", "t", "/", "h", "t", "m", "l", ";", " ", "c", "h", "a",
      "r", "s", "e", "t", "=", "u", "t", "f", "-", "8">>

CT_PNG ==
    <<"I", "m", "a", "g", "e", "/", "P", "N", "G", " ", ";", " ", "q", "=",
      "1">>

CL_SMALL ==
    <<"1", "0", "2", "4">>

CL_OVER ==
    <<"5", "2", "4", "2", "8", "8", "0", "0", "1">>

CL_WORD ==
    <<"a", "b", "c">>

\* the headers of a response: each of the two present or absent
Headers(content_type, content_length) ==
    [k \in (IF content_type = None THEN {} ELSE {"content-type"})
           \cup (IF content_length = None THEN {} ELSE {"content-length"})
       |-> IF k = "content-type" THEN content_type[1] ELSE content_length[1]]

Responses ==
    {[url |-> u, resource_type |-> k, status |-> s, headers |-> Headers(ct, cl)] :
        u \in {URL_PNG_UPPER, URL_NO_EXT, URL_DATA},
        k \in {"image", "media", "document"},
        s \in {200, 400},
        ct \in {None, Some(CT_HTML), Some(CT_PNG)},
        cl \in {None, Some(CL_SMALL), Some(CL_OVER), Some(CL_WORD)}}

\* the responses the pages of the request model receive
PageResponses ==
    {x \in Responses :
        x.headers \in {Headers(None, None),
                       Headers(Some(CT_HTML), Some(CL_WORD))}}

NoObservation == <<>>

\* handle_response called with x
Observation(x) == Some([response |-> x, result |-> handle_response(x)])

\* ------------------------------------------------------------------------
\* The browser processes of the engine
\* ------------------------------------------------------------------------

\* a browser process just launched for request r
Proc(id, r) ==
    [id |-> id, owner |-> r, state |-> "open", users |-> {r},
     closed_by |-> {}]

ProcIds(ps) == {p.id : p \in ps}

launch_target_pooled(ps, r) ==
    IF \E p \in ps : p.state = "open"
    THEN (CHOOSE p \in ps : p.state = "open").id
    ELSE Cardinality(ps) + 1

\* p.chromium.launch() starts a process of its own at every call: the id
\* of the process it returns is one no process has
launch_target(ps, r) ==
    CHOOSE n \in 1..(Cardinality(ps) + 1) :
        /\ n \notin ProcIds(ps)
        /\ \A m \in 1..(n - 1) : m \in ProcIds(ps)

\* the processes once launch has returned process id to request r
Launched(ps, id, r) ==
    IF id \in ProcIds(ps)
    THEN {IF p.id = id THEN [p EXCEPT !.users = @ \cup {r}] ELSE p : p \in ps}
    ELSE ps \cup {Proc(id, r)}

\* the processes once request r has closed the browser it holds
Closed(ps, id, r) ==
    {IF p.id = id
     THEN [p EXCEPT !.state = "closed", !.closed_by = @ \cup {r}]
     ELSE p : p \in ps}

\* ------------------------------------------------------------------------
\* State
\* ------------------------------------------------------------------------

VARIABLES
    pc,          \* per request: where its handler stands
    req,         \* per request: the request (credentials and JSON body)
    trace,       \* per request: the calls made so far, in order
    exc,         \* per request: the exception in flight in html_to_image
    playwright,  \* per request: the async_playwright() context
    browser,     \* per request: the browser it launched
    image,       \* per request: what page.screenshot returned
    processed,   \* per request: processed_html
    resp,        \* per request: the HTTP response
    observed,    \* per request: the latest call of handle_response
    probe,       \* observer on its own: the latest call of handle_response
    procs,       \* engine: the browser processes launched and not yet reaped
    handle,      \* per request: the process its local 'browser' is, 0 if unbound
    segs,        \* normaliser: the segments of the input document
    doc,         \* normaliser: the input document
    once,        \* normaliser: process_html_urls(doc)
    twice,       \* normaliser: process_html_urls(once)
    upc          \* normaliser: "compose", "once" or "twice"

rvars == <<pc, req, trace, exc, playwright, browser, image, processed, resp>>

uvars == <<segs, doc, once, twice, upc>>

ovars == <<observed, probe>>

evars == <<procs, handle>>

vars == <<pc, req, trace, exc, playwright, browser, image, processed, resp,
          segs, doc, once, twice, upc, observed, probe, procs, handle>>

Init ==
    /\ pc = [r \in Reqs |-> "idle"]
    /\ req = [r \in Reqs |-> NoRequest]
    /\ trace = [r \in Reqs |-> <<>>]
    /\ exc = [r \in Reqs |-> NoExc]
    /\ playwright = [r \in Reqs |-> "none"]
    /\ browser = [r \in Reqs |-> "none"]
    /\ image = [r \in Reqs |-> ""]
    /\ processed = [r \in Reqs |-> <<>>]
    /\ resp = [r \in Reqs |-> NoResponse]
    /\ observed = [r \in Reqs |-> NoObservation]
    /\ probe = NoObservation
    /\ procs = {}
    /\ handle = [r \in Reqs |-> 0]
    /\ segs = <<>>
    /\ doc = <<>>
    /\ once = <<>>
    /\ twice = <<>>
    /\ upc = "compose"

\* ------------------------------------------------------------------------
\* The normaliser on its own
\* ------------------------------------------------------------------------

\* the caller writes one more segment of the document
AddSegment ==
    /\ upc = "compose"
    /\ Len(segs) < MaxSegs
    /\ \E g \in Segments : segs' = Append(segs, g)
    /\ UNCHANGED <<doc, once, twice, upc>>
    /\ UNCHANGED rvars
    /\ UNCHANGED ovars
    /\ UNCHANGED evars

\* process_html_urls(doc)
NormalizeOnce ==
    /\ upc = "compose"
    /\ doc' = Render(segs)
    /\ once' = process_html_urls(Render(segs))
    /\ upc' = "once"
    /\ UNCHANGED <<segs, twice>>
    /\ UNCHANGED rvars
    /\ UNCHANGED ovars
    /\ UNCHANGED evars

\* process_html_urls(process_html_urls(doc))
NormalizeTwice ==
    /\ upc = "once"
    /\ twice' = process_html_urls(once)
    /\ upc' = "twice"
    /\ UNCHANGED <<segs, doc, once>>
    /\ UNCHANGED rvars
    /\ UNCHANGED ovars
    /\ UNCHANGED evars

\* ------------------------------------------------------------------------
\* POST /convert
\* ------------------------------------------------------------------------

Call(op, arg, ok) == [op |-> op, arg |-> arg, ok |-> ok]

Logged(r, op, arg, ok) ==
    trace' = [trace EXCEPT ![r] = Append(@, Call(op, arg, ok))]

\* the handler of r ends with response a
Answer(r, a) ==
    /\ resp' = [resp EXCEPT ![r] = a]
    /\ pc' = [pc EXCEPT ![r] = "responded"]

\* an engine call of html_to_image returns; the handler goes on at next
Returns(r, op, arg, next) ==
    /\ Logged(r, op, arg, TRUE)
    /\ pc' = [pc EXCEPT ![r] = next]

\* an engine call of html_to_image raises; control passes to handler
Raises(r, op, arg, handler) ==
    /\ \E e \in EngineErrors(op) : exc' = [exc EXCEPT ![r] = e]
    /\ Logged(r, op, arg, FALSE)
    /\ pc' = [pc EXCEPT ![r] = handler]

\* a request arrives
Receive(r) ==
    /\ pc[r] = "idle"
    /\ \E q \in HTMLRequest : req' = [req EXCEPT ![r] = q]
    /\ pc' = [pc EXCEPT ![r] = "auth"]
    /\ UNCHANGED <<trace, exc, playwright, browser, image, processed, resp>>
    /\ UNCHANGED uvars
    /\ UNCHANGED ovars
    /\ UNCHANGED evars

\* the client sends its requests one after the other
ReceiveNext(r) ==
    /\ \A o \in Reqs \ {r} : pc[o] = "idle"
    /\ Receive(r)

\* Depends(verify_api_key), itself Depends(security): both run before the
\* handler body
Authenticate(r) ==
    /\ pc[r] = "auth"
    /\ IF req[r].cred = None
       THEN /\ \E e \in NotAuthenticated : Answer(r, ErrorResponse(e))
            /\ Logged(r, "security", <<>>, FALSE)
       ELSE LET e == verify_api_key(req[r].cred[1])
            IN  IF e # NoExc
                THEN /\ Answer(r, ErrorResponse(e))
                     /\ Logged(r, "verify_api_key", <<>>, FALSE)
                ELSE /\ pc' = [pc EXCEPT ![r] = "validate_format"]
                     /\ Logged(r, "verify_api_key", <<>>, TRUE)
                     /\ UNCHANGED resp
    /\ UNCHANGED <<req, exc, playwright, browser, image, processed>>
    /\ UNCHANGED uvars
    /\ UNCHANGED ovars
    /\ UNCHANGED evars

\* the format check; what it raises is caught by the handler's own except
ValidateFormat(r) ==
    /\ pc[r] = "validate_format"
    /\ LET e == validate_format(req[r].format)
       IN  IF e # NoExc
           THEN /\ Answer(r, ErrorResponse(convert_except(e)))
                /\ Logged(r, "validate_format", <<>>, FALSE)
           ELSE /\ pc' = [pc EXCEPT ![r] = "validate_quality"]
                /\ Logged(r, "validate_format", <<>>, TRUE)
                /\ UNCHANGED resp
    /\ UNCHANGED <<req, exc, playwright, browser, image, processed>>
    /\ UNCHANGED uvars
    /\ UNCHANGED ovars
    /\ UNCHANGED evars

\* the quality check; what it raises is caught by the handler's own except
ValidateQuality(r) ==
    /\ pc[r] = "validate_quality"
    /\ LET e == validate_quality(req[r].quality)
       IN  IF e # NoExc
           THEN /\ Answer(r, ErrorResponse(convert_except(e)))
                /\ Logged(r, "validate_quality", <<>>, FALSE)
           ELSE /\ pc' = [pc EXCEPT ![r] = "process_html_urls"]
                /\ Logged(r, "validate_quality", <<>>, TRUE)
                /\ UNCHANGED resp
    /\ UNCHANGED <<req, exc, playwright, browser, image, processed>>
    /\ UNCHANGED uvars
    /\ UNCHANGED ovars
    /\ UNCHANGED evars

\* processed_html = process_html_urls(request.html)
Normalize(r) ==
    /\ pc[r] = "process_html_urls"
    /\ processed' = [processed EXCEPT ![r] = process_html_urls(req[r].html)]
    /\ Returns(r, "process_html_urls", <<>>, "async_playwright")
    /\ UNCHANGED <<req, exc, playwright, browser, image, resp>>
    /\ UNCHANGED uvars
    /\ UNCHANGED ovars
    /\ UNCHANGED evars

\* async with async_playwright() as p: entering the context
PlaywrightStart(r) ==
    /\ pc[r] = "async_playwright"
    /\ \/ /\ Returns(r, "async_playwright", <<>>, "launch")
          /\ playwright' = [playwright EXCEPT ![r] = "running"]
          /\ UNCHANGED exc
       \/ /\ Raises(r, "async_playwright", <<>>, on_raise("async_playwright"))
          /\ UNCHANGED playwright
    /\ UNCHANGED <<req, browser, image, processed, resp>>
    /\ UNCHANGED uvars
    /\ UNCHANGED ovars
    /\ UNCHANGED evars

\* browser = await p.chromium.launch(...)
Launch(r) ==
    /\ pc[r] = "launch"
    /\ \/ /\ Returns(r, "launch", <<>>, "new_page")
          /\ browser' = [browser EXCEPT ![r] = "open"]
          /\ procs' = Launched(procs, launch_target(procs, r), r)
          /\ handle' = [handle EXCEPT ![r] = launch_target(procs, r)]
          /\ UNCHANGED exc
       \/ /\ Raises(r, "launch", <<>>, on_raise("launch"))
          /\ UNCHANGED browser
          /\ UNCHANGED evars
    /\ UNCHANGED <<req, playwright, image, processed, resp>>
    /\ UNCHANGED uvars
    /\ UNCHANGED ovars

\* page = await browser.new_page(): before the try statement
NewPage(r) ==
    /\ pc[r] = "new_page"
    /\ \/ /\ Returns(r, "new_page", <<>>, "set_extra_http_headers")
          /\ UNCHANGED exc
       \/ Raises(r, "new_page", <<>>, on_raise("new_page"))
    /\ UNCHANGED <<req, playwright, browser, image, processed, resp>>
    /\ UNCHANGED uvars
    /\ UNCHANGED ovars
    /\ UNCHANGED evars

\* await page.set_extra_http_headers({...}): before the try statement
SetExtraHttpHeaders(r) ==
    /\ pc[r] = "set_extra_http_headers"
    /\ \/ /\ Returns(r, "set_extra_http_headers", <<>>, "on")
          /\ UNCHANGED exc
       \/ Raises(r, "set_extra_http_headers", <<>>, on_raise("set_extra_http_headers"))
    /\ UNCHANGED <<req, playwright, browser, image, processed, resp>>
    /\ UNCHANGED uvars
    /\ UNCHANGED ovars
    /\ UNCHANGED evars

\* page.on('response', handle_response): before the try statement
PageOn(r) ==
    /\ pc[r] = "on"
    /\ \/ /\ Returns(r, "on", <<>>, "set_viewport_size")
          /\ UNCHANGED exc
       \/ Raises(r, "on", <<>>, on_raise("on"))
    /\ UNCHANGED <<req, playwright, browser, image, processed, resp>>
    /\ UNCHANGED uvars
    /\ UNCHANGED ovars
    /\ UNCHANGED evars

\* await page.set_viewport_size({width, height}): first statement of the try
SetViewportSize(r) ==
    /\ pc[r] = "set_viewport_size"
    /\ \/ /\ Returns(r, "set_viewport_size", req[r].view, "set_default_timeout")
          /\ UNCHANGED exc
       \/ Raises(r, "set_viewport_size", req[r].view, on_raise("set_viewport_size"))
    /\ UNCHANGED <<req, playwright, browser, image, processed, resp>>
    /\ UNCHANGED uvars
    /\ UNCHANGED ovars
    /\ UNCHANGED evars

\* page.set_default_timeout(30000)
SetDefaultTimeout(r) ==
    /\ pc[r] = "set_default_timeout"
    /\ \/ /\ Returns(r, "set_default_timeout", DEFAULT_TIMEOUT_MS, "set_content")
          /\ UNCHANGED exc
       \/ Raises(r, "set_default_timeout", DEFAULT_TIMEOUT_MS, on_raise("set_default_timeout"))
    /\ UNCHANGED <<req, playwright, browser, image, processed, resp>>
    /\ UNCHANGED uvars
    /\ UNCHANGED ovars
    /\ UNCHANGED evars

\* await page.set_content(html, wait_until="networkidle")
SetContent(r) ==
    /\ pc[r] = "set_content"
    /\ \/ /\ Returns(r, "set_content", processed[r], "screenshot")
          /\ UNCHANGED exc
       \/ Raises(r, "set_content", processed[r], on_raise("set_content"))
    /\ UNCHANGED <<req, playwright, browser, image, processed, resp>>
    /\ UNCHANGED uvars
    /\ UNCHANGED ovars
    /\ UNCHANGED evars

\* image_bytes = await page.screenshot(**screenshot_options)
Screenshot(r) ==
    /\ pc[r] = "screenshot"
    /\ LET opts == screenshot_options(lower(req[r].format[1]),
                                      req[r].quality[1])
       IN  \/ /\ Returns(r, "screenshot", opts, "close")
              /\ \E b \in Images : image' = [image EXCEPT ![r] = b]
              /\ UNCHANGED exc
           \/ /\ Raises(r, "screenshot", opts, on_raise("screenshot"))
              /\ UNCHANGED image
    /\ UNCHANGED <<req, playwright, browser, processed, resp>>
    /\ UNCHANGED uvars
    /\ UNCHANGED ovars
    /\ UNCHANGED evars

\* the page receives a sub-resource response while set_content or screenshot
\* is awaited: the engine calls handle_response with it.  The handler is a
\* coroutine function, run as a task of its own: what it raises ends that
\* task and does not reach the awaiting html_to_image.
ResponseEvent(r) ==
    /\ pc[r] \in {"set_content", "screenshot"}
    /\ \E x \in PageResponses :
          observed' = [observed EXCEPT ![r] = Observation(x)]
    /\ UNCHANGED probe
    /\ UNCHANGED evars
    /\ UNCHANGED rvars
    /\ UNCHANGED uvars

\* finally: await browser.close().  An exception of close replaces the one
\* in flight.
BrowserClose(r) ==
    /\ pc[r] = "close"
    /\ \/ /\ Returns(r, "close", <<>>, "playwright_stop")
          /\ browser' = [browser EXCEPT ![r] = "closed"]
          /\ procs' = Closed(procs, handle[r], r)
          /\ UNCHANGED exc
       \/ /\ Raises(r, "close", <<>>, on_raise("close"))
          /\ UNCHANGED <<browser, procs>>
    /\ UNCHANGED <<req, playwright, image, processed, resp, handle>>
    /\ UNCHANGED uvars
    /\ UNCHANGED ovars

\* leaving 'async with async_playwright()', on return and on exception alike
PlaywrightStop(r) ==
    /\ pc[r] = "playwright_stop"
    /\ playwright' = [playwright EXCEPT ![r] = "stopped"]
    /\ browser' = [browser EXCEPT ![r] = playwright_stop(browser[r])]
    /\ procs' = Stopped(procs, r)
    /\ Returns(r, "playwright_stop", <<>>, "return")
    /\ UNCHANGED <<req, exc, image, processed, resp, handle>>
    /\ UNCHANGED uvars
    /\ UNCHANGED ovars

\* html_to_image has returned or raised: the Response, or the except clause
Respond(r) ==
    /\ pc[r] = "return"
    /\ Answer(r, convert_response(exc[r], req[r].format[1], image[r]))
    /\ UNCHANGED <<req, trace, exc, playwright, browser, image, processed>>
    /\ UNCHANGED uvars
    /\ UNCHANGED ovars
    /\ UNCHANGED evars

\* the response is sent and the request is gone
Finish(r) ==
    /\ pc[r] = "responded"
    /\ pc' = [pc EXCEPT ![r] = "idle"]
    /\ req' = [req EXCEPT ![r] = NoRequest]
    /\ trace' = [trace EXCEPT ![r] = <<>>]
    /\ exc' = [exc EXCEPT ![r] = NoExc]
    /\ playwright' = [playwright EXCEPT ![r] = "none"]
    /\ browser' = [browser EXCEPT ![r] = "none"]
    /\ image' = [image EXCEPT ![r] = ""]
    /\ processed' = [processed EXCEPT ![r] = <<>>]
    /\ resp' = [resp EXCEPT ![r] = NoResponse]
    /\ observed' = [observed EXCEPT ![r] = NoObservation]
    /\ procs' = {p \in procs : p.owner # r}
    /\ handle' = [handle EXCEPT ![r] = 0]
    /\ UNCHANGED probe
    /\ UNCHANGED uvars

\* the steps of the handler of r
Step(r) ==
    \/ Authenticate(r)
    \/ ValidateFormat(r)
    \/ ValidateQuality(r)
    \/ Normalize(r)
    \/ PlaywrightStart(r)
    \/ Launch(r)
    \/ NewPage(r)
    \/ SetExtraHttpHeaders(r)
    \/ PageOn(r)
    \/ SetViewportSize(r)
    \/ SetDefaultTimeout(r)
    \/ SetContent(r)
    \/ Screenshot(r)
    \/ BrowserClose(r)
    \/ PlaywrightStop(r)
    \/ Respond(r)
    \/ Finish(r)

\* the handler of r, and the responses its page receives
Handle(r) == Step(r) \/ ResponseEvent(r)

Next == \E r \in Reqs : ReceiveNext(r) \/ Handle(r)

Spec == Init /\ [][Next]_vars

\* the requests of concurrent clients: one that renders and one that the
\* format check turns down
ConcRequests ==
    {[cred |-> Some(API_KEY), html |-> HELLO_HTML,
      view |-> <<Some(1920), Some(1080)>>, format |-> Some(f),
      quality |-> Some(100)] : f \in {"png", "bmp"}}

\* a request arrives, whatever the other handlers are doing
ReceiveAny(r) ==
    /\ pc[r] = "idle"
    /\ \E q \in ConcRequests : req' = [req EXCEPT ![r] = q]
    /\ pc' = [pc EXCEPT ![r] = "auth"]
    /\ UNCHANGED <<trace, exc, playwright, browser, image, processed, resp>>
    /\ UNCHANGED uvars
    /\ UNCHANGED ovars
    /\ UNCHANGED evars

\* the handlers are coroutines of one event loop: they interleave at every
\* await.  The observer of a page touches nothing but its own response,
\* and is left out here.
NextConc == \E r \in Reqs : ReceiveAny(r) \/ Step(r)

SpecConc == Init /\ [][NextConc]_vars

NextUrl == AddSegment \/ NormalizeOnce \/ NormalizeTwice

SpecUrl == Init /\ [][NextUrl]_vars

\* the observer on its own: handle_response called with any response
Probe ==
    /\ \E x \in Responses : probe' = Observation(x)
    /\ UNCHANGED observed
    /\ UNCHANGED evars
    /\ UNCHANGED rvars
    /\ UNCHANGED uvars

NextObs == Probe

SpecObs == Init /\ [][NextObs]_vars

\* ------------------------------------------------------------------------
\* Vocabulary of the properties
\* ------------------------------------------------------------------------

\* the request carries the configured key
Authenticated(q) == q.cred = Some(API_KEY)

\* the format is png or jpeg, whatever the case of its letters
FormatAllowed(q) ==
    q.format \in {Some("png"), Some("PNG"), Some("Png"),
                  Some("jpeg"), Some("JPEG"), Some("Jpeg")}

FormatIsPng(q) == q.format \in {Some("png"), Some("PNG"), Some("Png")}

QualityInside(q) == q.quality # None /\ q.quality[1] \in 1..100

QualityOutside(q) == q.quality # None /\ q.quality[1] \notin 1..100

\* r has made the call op (whether it returned or raised)
Attempted(r, op) == \E i \in DOMAIN trace[r] : trace[r][i].op = op

\* the call op of r returned
Succeeded(r, op) ==
    \E i \in DOMAIN trace[r] : trace[r][i].op = op /\ trace[r][i].ok

\* some call of r raised
SomeCallFailed(r) == \E i \in DOMAIN trace[r] : ~trace[r][i].ok

\* nothing of the handler body has run for r and no engine resource exists
NothingStarted(r) ==
    /\ \A i \in DOMAIN trace[r] :
          trace[r][i].op \in {"security", "verify_api_key"}
    /\ playwright[r] = "none"
    /\ browser[r] = "none"
    /\ processed[r] = <<>>

\* C1: an authenticated request whose format is neither png nor jpeg is
\* answered 400 with a detail that lists exactly png and jpeg.
C1_InvalidFormatIs400 ==
    \A r \in Reqs :
        (pc[r] = "responded" /\ Authenticated(req[r])
            /\ req[r].format # None /\ ~FormatAllowed(req[r]))
        => /\ resp[r].status = 400
           /\ resp[r].detail =
                <<"Invalid format. Must be one of: ", "png", ", ", "jpeg">>

\* C2: with a valid format, a quality outside 1..100 is answered 400, and a
\* quality inside 1..100 is answered 200 when no engine call fails.
C2_QualityBounds ==
    \A r \in Reqs :
        (pc[r] = "responded" /\ Authenticated(req[r])
            /\ FormatAllowed(req[r]))
        => /\ QualityOutside(req[r]) => resp[r].status = 400
           /\ (QualityInside(req[r]) /\ ~SomeCallFailed(r))
                => resp[r].status = 200

C5_ImageOrError ==
    \A r \in Reqs :
        (pc[r] = "responded" /\ Authenticated(req[r])
            /\ FormatAllowed(req[r]) /\ QualityInside(req[r]))
        => \/ /\ resp[r].status = 200
              /\ ~SomeCallFailed(r)
              /\ Succeeded(r, "screenshot")
              /\ resp[r].body = image[r]
              /\ resp[r].body \in Images
           \/ /\ resp[r].status = 500
              /\ SomeCallFailed(r)
              /\ resp[r].body = ""
              /\ Head(resp[r].detail) = "Conversion failed: "
              /\ Tail(resp[r].detail) = exc[r].detail
              /\ exc[r] # NoExc

C5_Witness ==
    \E r \in Reqs :
        /\ pc[r] = "responded"
        /\ resp[r].status = 200
        /\ resp[r].body \in Images

\* C6: a browser launch is attempted for a request only after its format
\* check and its quality check have both passed; a request that fails
\* either check never launches a browser.
C6_LaunchOnlyAfterValidation ==
    \A r \in Reqs :
        /\ \A k \in DOMAIN trace[r] :
              trace[r][k].op \in {"async_playwright", "launch"}
              => /\ FormatAllowed(req[r])
                 /\ QualityInside(req[r])
                 /\ \E i \in 1..(k - 1) : \E j \in (i + 1)..(k - 1) :
                       /\ trace[r][i] = Call("validate_format", <<>>, TRUE)
                       /\ trace[r][j] = Call("validate_quality", <<>>, TRUE)
        /\ (\E i \in DOMAIN trace[r] :
                /\ trace[r][i].op \in {"validate_format", "validate_quality"}
                /\ ~trace[r][i].ok)
           => (browser[r] = "none" /\ playwright[r] = "none")

C6_Witness ==
    \E r \in Reqs : Attempted(r, "launch") /\ QualityInside(req[r])

\* C7: process_html_urls is idempotent.
C7_Idempotent == (upc = "twice") => (twice = once)

\* C8: a Drive-host URL of one of the three shapes, written as
\* src=<q>URL<q> or =<q>URL<q>, comes out as <q>https://lh3.../d/ID<q> with
\* the file id of that URL, the prefix and the quotes kept.
C8_DriveUrlRewritten ==
    (upc # "compose")
    => \A i \in DOMAIN segs :
          LET g == segs[i]
          IN  (g.open = g.close /\ g.url.drive /\ g.url.id # <<>>)
              => Contains(once, g.pre \o <<g.open>> \o LH3_PREFIX
                                \o g.url.id \o <<g.close>>)

\* the output out, read from position pos on, is the document gs with
\* nothing changed but the URLs whose host is drive.google.com
RECURSIVE SameOutsideDrive(_, _, _)
SameOutsideDrive(gs, out, pos) ==
    IF gs = <<>> THEN pos = Len(out) + 1
    ELSE LET g == Head(gs)
         IN  IF ~g.url.drive
             THEN /\ StartsWithAt(out, pos, RenderSeg(g))
                  /\ SameOutsideDrive(Tail(gs), out, pos + Len(RenderSeg(g)))
             ELSE LET b == pos + Len(g.pre) + 1
                      e == NonQuoteRunEnd(out, b)
                  IN  /\ StartsWithAt(out, pos, g.pre \o <<g.open>>)
                      /\ e + 1 <= Len(out)
                      /\ out[e + 1] = g.close
                      /\ SameOutsideDrive(Tail(gs), out, e + 2)

\* C9: a URL whose host is not drive.google.com passes through unchanged,
\* also when 'drive.google.com/file/d/...' occurs in its path or query; the
\* output equals the input outside the URLs on the Drive host.
C9_NonDriveUntouched ==
    (upc # "compose") => SameOutsideDrive(segs, once, 1)

\* C10: the capture call of a png request carries type and full_page and no
\* quality entry at all, so nothing in its engine calls depends on the
\* quality; the capture call of a jpeg request carries the request's quality.
C10_PngCaptureHasNoQuality ==
    \A r \in Reqs : \A i \in DOMAIN trace[r] :
        trace[r][i].op = "screenshot"
        => LET a == trace[r][i].arg
           IN  IF FormatIsPng(req[r])
               THEN /\ DOMAIN a = {"type", "full_page"}
                    /\ a.type = "png"
                    /\ a.full_page
               ELSE /\ DOMAIN a = {"type", "quality", "full_page"}
                    /\ a.type = "jpeg"
                    /\ a.quality = req[r].quality
                    /\ a.full_page

C10_Witness ==
    \E r \in Reqs :
        /\ FormatIsPng(req[r])
        /\ req[r].quality = Some(100)
        /\ Succeeded(r, "screenshot")

FormatIsJpeg(q) == q.format \in {Some("jpeg"), Some("JPEG"), Some("Jpeg")}

\* C11: a 200 response has Content-Type image/png exactly when the request's
\* format, lower-cased, is png and image/jpeg exactly when it is jpeg, and the
\* capture call of the request was made with that lower-cased format as its
\* type, whatever the case of the letters in the request.
C11_ContentTypeFollowsFormat ==
    \A r \in Reqs :
        (pc[r] = "responded" /\ resp[r].status = 200)
        => /\ FormatIsPng(req[r]) \/ FormatIsJpeg(req[r])
           /\ (resp[r].media_type = "image/png") <=> FormatIsPng(req[r])
           /\ (resp[r].media_type = "image/jpeg") <=> FormatIsJpeg(req[r])
           /\ \E i \in DOMAIN trace[r] :
                 /\ trace[r][i].op = "screenshot"
                 /\ trace[r][i].ok
                 /\ trace[r][i].arg.type
                      = (IF FormatIsPng(req[r]) THEN "png" ELSE "jpeg")

C11_Witness ==
    \E r \in Reqs :
        /\ pc[r] = "responded"
        /\ resp[r].status = 200
        /\ req[r].format = Some("Jpeg")
        /\ resp[r].media_type = "image/jpeg"

\* the engine calls of html_to_image, in the order of its statements
EngineOrder ==
    <<"async_playwright", "launch", "new_page", "set_extra_http_headers",
      "on", "set_viewport_size", "set_default_timeout", "set_content",
      "screenshot", "close", "playwright_stop">>

IsEngineCall(c) == InSeq(c.op, EngineOrder)

Rank(op) == CHOOSE i \in DOMAIN EngineOrder : EngineOrder[i] = op

\* C12: the engine calls of one html_to_image call follow the order of the
\* steps and none is made twice (one launch, no retry); set_content is called
\* only after launch, new_page, the headers, the observer registration, the
\* viewport and the 30000 ms timeout have all returned; screenshot only after
\* set_content has returned; and after a failed call nothing follows but
\* browser.close() and the exit of the playwright context.
C12_LinearNoRetry ==
    \A r \in Reqs :
        LET t == trace[r]
        IN  /\ \A i \in DOMAIN t : \A j \in DOMAIN t :
                  (i < j /\ IsEngineCall(t[i]) /\ IsEngineCall(t[j]))
                  => Rank(t[i].op) < Rank(t[j].op)
            /\ \A j \in DOMAIN t :
                  t[j].op = "set_content"
                  => \A op \in {"launch", "new_page", "set_extra_http_headers",
                                "on", "set_viewport_size",
                                "set_default_timeout"} :
                        \E i \in 1..(j - 1) : t[i].op = op /\ t[i].ok
            /\ \A j \in DOMAIN t :
                  t[j].op = "set_default_timeout"
                  => t[j].arg = DEFAULT_TIMEOUT_MS
            /\ \A j \in DOMAIN t :
                  t[j].op = "screenshot"
                  => \E i \in 1..(j - 1) :
                        t[i].op = "set_content" /\ t[i].ok
            /\ \A j \in DOMAIN t :
                  t[j].op = "close"
                  => \E i \in 1..(j - 1) : t[i].op = "launch" /\ t[i].ok
            /\ \A i \in DOMAIN t : \A j \in DOMAIN t :
                  (i < j /\ IsEngineCall(t[i]) /\ ~t[i].ok)
                  => t[j].op \in {"close", "playwright_stop"}

C12_Witness ==
    \E r \in Reqs :
        /\ pc[r] = "responded"
        /\ Succeeded(r, "screenshot")
        /\ Succeeded(r, "close")
        /\ Succeeded(r, "playwright_stop")

\* set_content of r raised: network idle was not reached within the default
\* timeout, or the load failed otherwise
LoadFailed(r) ==
    \E i \in DOMAIN trace[r] :
        trace[r][i].op = "set_content" /\ ~trace[r][i].ok

\* C13: when set_content raises (the 30000 ms timeout included), screenshot
\* is never called for that call, the next call is browser.close(), the
\* browser is closed when html_to_image is left, and the request is answered
\* 500 'Conversion failed: ...' with no image in the body.
C13_LoadTimeoutFails ==
    \A r \in Reqs :
        LoadFailed(r)
        => /\ ~Attempted(r, "screenshot")
           /\ image[r] = ""
           /\ pc[r] \in {"close", "playwright_stop", "return", "responded"}
           /\ (pc[r] # "close") => Attempted(r, "close")
           /\ (pc[r] \in {"return", "responded"}) => browser[r] = "closed"
           /\ (pc[r] = "responded")
                => /\ resp[r].status = 500
                   /\ resp[r].body = ""
                   /\ Head(resp[r].detail) = "Conversion failed: "

C13_Witness ==
    \E r \in Reqs :
        /\ pc[r] = "responded"
        /\ LoadFailed(r)
        /\ exc[r] = PyError("TimeoutError", "Timeout 30000ms exceeded.")
        /\ Succeeded(r, "close")
        /\ resp[r].status = 500
        /\ resp[r].detail = <<"Conversion failed: ", "Timeout 30000ms exceeded.">>

\* x is a response the observer is meant for: an image or media resource
\* with an absolute http or https URL
ImageOverHttp(x) ==
    /\ x.resource_type \in {"image", "media"}
    /\ \/ StartsWithAt(x.url, 1, HTTP_SCHEME)
       \/ StartsWithAt(x.url, 1, HTTPS_SCHEME)

\* C14: an image or media response over http(s) with status below 400, whose
\* URL holds no allowed extension and whose content type is no allowed MIME
\* type, gets the 'Blocking resource with invalid content type' note.
C14_BlockedNoteLogged ==
    (probe # NoObservation)
    => LET x == probe[1].response
       IN  (/\ ImageOverHttp(x)
            /\ x.status < 400
            /\ ~has_allowed_extension(x.url)
            /\ ~has_allowed_mime(DictGet(x.headers, "content-type", <<>>)))
           => probe[1].result.notes = <<NOTE_BLOCKED>>

\* C15: whatever the response (its content-length absent, numeric or not a
\* number), handle_response returns without raising, and a request all of
\* whose engine calls returned is answered 200 with the captured image.
C15_ObserverNeverRaises ==
    \A r \in Reqs :
        /\ (observed[r] # NoObservation)
              => observed[r][1].result.exc = NoExc
        /\ (pc[r] = "responded" /\ Succeeded(r, "screenshot")
                /\ ~SomeCallFailed(r))
              => (resp[r].status = 200 /\ resp[r].body = image[r])

\* C16: an image or media response over http(s) with status 400 or more gets
\* the 'Failed to load image' note and no other, and nothing is raised; a
\* response of another resource kind or with a URL that is not http(s) gets
\* no note; and the render goes on: a request whose engine calls all return
\* is captured and answered 200 whatever responses its page received.
C16_FailedLoadOnlyNoted ==
    \A r \in Reqs :
        (observed[r] # NoObservation)
        => LET x == observed[r][1].response
               res == observed[r][1].result
           IN  /\ (ImageOverHttp(x) /\ x.status >= 400)
                     => res = Observed(<<NOTE_FAILED>>, NoExc)
               /\ ~ImageOverHttp(x) => res = Observed(<<>>, NoExc)
               /\ pc[r] \in {"set_content", "screenshot", "close",
                              "playwright_stop", "return", "responded"}
               /\ (pc[r] = "responded" /\ ~SomeCallFailed(r))
                     => /\ Succeeded(r, "screenshot")
                        /\ resp[r].status = 200

C16_Witness ==
    \E r \in Reqs :
        /\ pc[r] = "responded"
        /\ resp[r].status = 200
        /\ Succeeded(r, "screenshot")
        /\ observed[r] # NoObservation
        /\ ImageOverHttp(observed[r][1].response)
        /\ observed[r][1].response.status = 400
        /\ observed[r][1].result.notes = <<NOTE_FAILED>>

\* the process the local 'browser' of request r is bound to
ProcOf(r) == CHOOSE p \in procs : p.id = handle[r]

ViewportPositive(q) ==
    /\ q.view[1] # None /\ q.view[1][1] > 0
    /\ q.view[2] # None /\ q.view[2][1] > 0

\* C18: a request for which a browser launch is attempted has a positive
\* width and height, a format that is png or jpeg and a quality
\* in 1..100; a request with a zero or null width or height, or a null
\* format or quality, never gets as far as the launch.
C18_EngineOnlyForValidRequests ==
    \A r \in Reqs :
        Attempted(r, "launch")
        => /\ ViewportPositive(req[r])
           /\ FormatAllowed(req[r])
           /\ QualityInside(req[r])

====
